---- MODULE Spec2Model ----
(***************************************************************************)
(* A model of draft-js's composition handling                              *)
(* (DraftEditorCompositionHandler.js) and of block-map rekeying            *)
(* (randomizeBlockMapKeys.js).                                             *)
(*                                                                         *)
(* Strings are sequences of one-character strings: '' is << >>, a + b is   *)
(* a \o b, s.length is Len(s), and a string is truthy iff it is not << >>. *)
(* The host editor (DraftEditor.react), EditorState, DraftModifier and the *)
(* browser's timers are not part of the handler: the editor state a        *)
(* resolution reads is an input, the host calls it makes are recorded in   *)
(* `calls`, and the pending setTimeout callbacks are the queue `timers`.   *)
(***************************************************************************)
EXTENDS Integers, Sequences, FiniteSets, TLC

\* ------------------------------------------------------------------ bounds

\* Longest input buffer onBeforeInput builds up before a resolution drains it.
MaxBuf == 2

\* Most end-delay timers pending at once (and most keep-alive timers).
MaxTimers == 2

\* Length of the text of the block the selection is in; offsets are 0..MaxOff.
MaxOff == 1

\* Most blocks of a block map handed to randomizeBlockMapKeys.
MaxBlocks == 4

\* ------------------------------------------------------- handler variables

VARIABLES
    isAndroid,            \* UserAgent.isPlatform('Android'), fixed at load
    resolved,             \* let resolved
    stillComposing,       \* let stillComposing
    textInputData,        \* let textInputData
    formerTextInputData,  \* let formerTextInputData
    setTimeoutId,         \* let setTimeoutId: "undefined", or "set" once it holds a handle
    timers,               \* the pending setTimeout callbacks, in arming order
    op,                   \* the handler or timer callback that ran last
    calls,                \* the host calls it made, in order
    script,               \* history: progress of start, input+, end, timer
    endRun                \* history: a run of consecutive compositionend events

cvars == <<isAndroid, resolved, stillComposing, textInputData, formerTextInputData,
           setTimeoutId, timers, op, calls, script, endRun>>

\* ------------------------------------------------------ rekeying variables

VARIABLES
    blockMap,             \* the block map handed to randomizeBlockMapKeys
    rekeyed,              \* whether it was called, and the block map it returned
    seenKeys              \* generateRandomKey's seenKeys

\* The handlers do not touch block maps nor generate keys.
rvars == <<blockMap, rekeyed, seenKeys>>

\* ----------------------------------------------------- editOnFocus variables

VARIABLES
    focused,              \* the last focus event: what editOnFocus was given and read
    focusCalls            \* the calls editOnFocus made on the editor, in order

\* The composition handlers and the rekeying do not handle focus events.
fvars == <<focused, focusCalls>>

vars == <<cvars, rvars, fvars>>

\* ------------------------------------------------------------------ inputs

\* e.data of a beforeinput event: React dispatches onBeforeInput only with
\* non-empty characters.
InputData == {<<"a">>, <<"b">>}

\* e.data of compositionstart: empty, or the text the composition replaces.
StartData == {<< >>, <<"a">>}

\* e.data of compositionupdate: the composition string so far, possibly empty.
UpdateData == {<< >>, <<"b">>}

\* e.which of a key event.
Keys == {"LEFT", "RIGHT", "RETURN", "OTHER"}

\* getEntityKeyForSelection's result when no entity covers the selection.
NoEntity == "null"

\* The text of the block the selection is in.
BlockText == [i \in 1..MaxOff |-> "x"]

\* editor._latestEditorState as a resolution reads it: the block's text, the
\* selection's offsets, isSelectionAtLeafStart's answer, the size of the current
\* inline style set and the entity key at the selection. A selection that starts
\* at offset 0 is at the start of the block's first leaf.
EditorStates ==
    {es \in [text : {BlockText}, anchorOffset : 0..MaxOff, focusOffset : 0..MaxOff,
             leafStart : BOOLEAN, styleSize : 0..1, entityKey : {NoEntity, "1"}] :
        (es.anchorOffset = 0 \/ es.focusOffset = 0) => es.leafStart}

\* The editor states of an editor that holds plain text: no inline style and no
\* entity. The event handlers and timers are explored over these; EditorStates
\* as a whole is explored by calling resolveComposition directly.
PlainEditorStates ==
    {es \in EditorStates : es.styleSize = 0 /\ es.entityKey = NoEntity}

\* window.getSelection() as a resolution reads it.
DomSelections == [anchorOffset : 0..MaxOff, focusOffset : 0..MaxOff]

\* ------------------------------------------------- the document operations

Min(a, b) == IF a < b THEN a ELSE b

Max(a, b) == IF a < b THEN b ELSE a

Abs(a) == IF a < 0 THEN 0 - a ELSE a

\* SelectionState.isCollapsed, within one block.
isCollapsed(sel) == sel.anchorOffset = sel.focusOffset

\* DraftModifier.removeRange on the block's text: the characters of the selected
\* range are removed and the selection after is collapsed at its start.
removeRange(text, sel) ==
    LET start == Min(sel.anchorOffset, sel.focusOffset)
        end   == Max(sel.anchorOffset, sel.focusOffset)
    IN  [text |-> SubSeq(text, 1, start) \o SubSeq(text, end + 1, Len(text)),
         selectionAfter |-> [anchorOffset |-> start, focusOffset |-> start]]

\* DraftModifier.replaceText on the block's text: the selected range is replaced
\* by chars and the selection after is collapsed behind them.
replaceText(text, sel, chars) ==
    LET start == Min(sel.anchorOffset, sel.focusOffset)
        end   == Max(sel.anchorOffset, sel.focusOffset)
    IN  [text |-> SubSeq(text, 1, start) \o chars \o SubSeq(text, end + 1, Len(text)),
         selectionAfter |-> [anchorOffset |-> start + Len(chars),
                             focusOffset |-> start + Len(chars)]]

\* ---------------------------------------------------------- host calls

restoreEditorDOM == [fn |-> "restoreEditorDOM"]

exitCurrentMode == [fn |-> "exitCurrentMode"]

preventDefault == [fn |-> "preventDefault"]

\* editor._onKeyDown(e)
forwardKeyDown(key) == [fn |-> "_onKeyDown", key |-> key]

\* editor.update(EditorState.push(editorState, contentState, 'insert-characters'))
updatePush(content, selectionAfter) ==
    [fn |-> "update", changeType |-> "insert-characters", text |-> content,
     selection |-> selectionAfter, forceSelection |-> FALSE]

\* editor.update(EditorState.set(editorState,
\*     {nativelyRenderedContent: null, forceSelection: true}))
updateReset(es) ==
    [fn |-> "update", changeType |-> "none", text |-> es.text,
     selection |-> [anchorOffset |-> es.anchorOffset, focusOffset |-> es.focusOffset],
     forceSelection |-> TRUE]

\* ------------------------------------------------------ resolveComposition

\* mustReset without the test of the entity key.
mustResetIgnoresEntity(composedChars, es) ==
    \/ composedChars = << >>
    \/ es.leafStart
    \/ es.styleSize > 0

\* const mustReset = !composedChars || isSelectionAtLeafStart(editorState) ||
\*                   currentStyle.size > 0 || entityKey !== null
mustReset(composedChars, es) ==
    \/ composedChars = << >>
    \/ es.leafStart
    \/ es.styleSize > 0
    \/ es.entityKey # NoEntity

\* removesFormer without the test of the platform.
removesFormerOnEveryPlatform(formerComposedChars, es) ==
    /\ formerComposedChars # << >>
    /\ isCollapsed(es)

\* isAndroid && formerComposedChars && selection.isCollapsed()
removesFormer(formerComposedChars, es) ==
    /\ isAndroid
    /\ formerComposedChars # << >>
    /\ isCollapsed(es)

\* The selection of the range to remove: the anchor moved back by the length of
\* formerComposedChars, not below 0.
toRemoveSel(formerComposedChars, es) ==
    LET anchorOffset == es.anchorOffset - Len(formerComposedChars)
    IN  [anchorOffset |-> IF anchorOffset < 0 THEN 0 ELSE anchorOffset,
         focusOffset |-> es.focusOffset]

\* contentState and selection before the insertion: with the former characters
\* removed on Android, the editor state's own otherwise.
beforeInsert(formerComposedChars, es) ==
    IF removesFormer(formerComposedChars, es)
    THEN removeRange(es.text, toRemoveSel(formerComposedChars, es))
    ELSE [text |-> es.text,
          selectionAfter |-> [anchorOffset |-> es.anchorOffset,
                              focusOffset |-> es.focusOffset]]

\* The selection after of the pushed content: replaceText's, or on Android, when
\* it lies behind the DOM selection's anchor, the DOM selection's range.
insertSelectionAfter(replaced, dom) ==
    IF isAndroid /\ replaced.selectionAfter.anchorOffset > dom.anchorOffset
    THEN LET startOffset == Min(dom.anchorOffset, dom.focusOffset)
             endOffset   == startOffset + Abs(dom.focusOffset - dom.anchorOffset)
         IN  [anchorOffset |-> startOffset, focusOffset |-> endOffset]
    ELSE replaced.selectionAfter

\* resolveUpdate whose mustReset does not count empty composedChars.
resolveUpdateResetsForSelectionOnly(composedChars, formerComposedChars, es, dom) ==
    LET before   == beforeInsert(formerComposedChars, es)
        replaced == replaceText(before.text, before.selectionAfter, composedChars)
    IN  IF composedChars # << >>
        THEN <<updatePush(replaced.text,
                          insertSelectionAfter(replaced, dom))>>
        ELSE IF es.leafStart \/ es.styleSize > 0 \/ es.entityKey # NoEntity
             THEN <<updateReset(es)>>
             ELSE << >>

\* The update of a resolution, if any: the push of the inserted characters, or
\* the reset when nothing was composed.
resolveUpdate(composedChars, formerComposedChars, es, dom) ==
    LET before   == beforeInsert(formerComposedChars, es)
        replaced == replaceText(before.text, before.selectionAfter, composedChars)
    IN  IF composedChars # << >>
        THEN <<updatePush(replaced.text,
                          insertSelectionAfter(replaced, dom))>>
        ELSE IF mustReset(composedChars, es)
             THEN <<updateReset(es)>>
             ELSE << >>

\* The host calls of a resolution that passed the stillComposing guard.
resolveCalls(composedChars, formerComposedChars, es, dom) ==
    (IF mustReset(composedChars, es) THEN <<restoreEditorDOM>> ELSE << >>)
    \o <<exitCurrentMode>>
    \o resolveUpdate(composedChars, formerComposedChars, es, dom)

\* resolveComposition without its test of stillComposing.
resolveCompositionUnguarded(still, res, buffer, former, es, dom) ==
    [ran |-> TRUE, resolved |-> TRUE, textInputData |-> << >>,
     formerTextInputData |-> << >>,
     calls |-> resolveCalls(buffer, former, es, dom)]

\* resolveComposition that leaves textInputData as it is.
resolveCompositionKeepsBuffer(still, res, buffer, former, es, dom) ==
    IF still
    THEN [ran |-> FALSE, resolved |-> res, textInputData |-> buffer,
          formerTextInputData |-> former, calls |-> << >>]
    ELSE [ran |-> TRUE, resolved |-> TRUE, textInputData |-> buffer,
          formerTextInputData |-> << >>,
          calls |-> resolveCalls(buffer, former, es, dom)]

\* resolveComposition(editor), called with the given module state: whether it
\* passed the guard, the module state it leaves and the host calls it made.
resolveComposition(still, res, buffer, former, es, dom) ==
    IF still
    THEN [ran |-> FALSE, resolved |-> res, textInputData |-> buffer,
          formerTextInputData |-> former, calls |-> << >>]
    ELSE [ran |-> TRUE, resolved |-> TRUE, textInputData |-> << >>,
          formerTextInputData |-> << >>,
          calls |-> resolveCalls(buffer, former, es, dom)]

\* ------------------------------------------------------------ the timers

\* setTimeout(() => {...}, RESOLVE_DELAY) of onCompositionEnd. stale records
\* whether a compositionstart came after it was armed, keyed whether a keydown
\* has resolved the composition since.
EndTimer == [kind |-> "end", stale |-> FALSE, keyed |-> FALSE]

\* setTimeout((data) => {...}, 1, e.data) of onCompositionUpdate. current records
\* whether setTimeoutId holds this timer's handle.
KeepAliveTimer(data) == [kind |-> "keepAlive", data |-> data, current |-> TRUE]

\* The positions of the pending timers of a kind.
TimersOf(kind) == {i \in 1..Len(timers) : timers[i].kind = kind}

\* q without its i-th element.
RemoveAt(q, i) == SubSeq(q, 1, i - 1) \o SubSeq(q, i + 1, Len(q))

\* clearTimeout(setTimeoutId): the timer whose handle setTimeoutId holds is
\* dropped if it is still pending.
clearTimeout(q) == SelectSeq(q, LAMBDA t : ~(t.kind = "keepAlive" /\ t.current))

\* A later setTimeout overwrote setTimeoutId: no pending timer is current.
notCurrent(q) ==
    [i \in 1..Len(q) |->
        IF q[i].kind = "keepAlive" THEN [q[i] EXCEPT !.current = FALSE] ELSE q[i]]

\* A compositionstart came: every pending end-delay timer is now stale.
markStale(q) ==
    [i \in 1..Len(q) |->
        IF q[i].kind = "end" THEN [q[i] EXCEPT !.stale = TRUE] ELSE q[i]]

\* A keydown resolved the composition: every pending end-delay timer was armed
\* before it.
markKeyed(q) ==
    [i \in 1..Len(q) |->
        IF q[i].kind = "end" THEN [q[i] EXCEPT !.keyed = TRUE] ELSE q[i]]

\* ---------------------------------------------------------- the histories

\* No editor state (or DOM selection) was read.
NoEditorState == [read |-> FALSE]

\* The record of the handler that ran last: its name, the key of a key event,
\* whether resolveComposition passed its guard and then the editor state and the
\* composedChars and formerComposedChars it read, whether the timer that fired
\* was stale, and how many resolutions ran in a row up to this one.
Ran(name, key, r, buffer, former, es, stale) ==
    [name |-> name, key |-> key, ran |-> r.ran,
     es |-> IF r.ran THEN es ELSE NoEditorState,
     composedChars |-> IF r.ran THEN buffer ELSE << >>,
     formerComposedChars |-> IF r.ran THEN former ELSE << >>,
     stale |-> stale,
     nres |-> IF r.ran THEN Min(op.nres + 1, 2) ELSE 0]

\* A handler that did not call resolveComposition.
NotRun == [ran |-> FALSE]

\* The record of a handler that is no key event and called no resolveComposition.
Plain(name) == Ran(name, "none", NotRun, << >>, << >>, NoEditorState, FALSE)

\* No start, input+, end, timer sequence is under way.
NoScript == [phase |-> "none", d |-> << >>, held |-> << >>, acc |-> << >>]

\* No run of compositionend events is under way.
NoEndRun == [ends |-> 0, fired |-> 0, updates |-> 0]

\* The update calls among cs.
Updates(cs) == SelectSeq(cs, LAMBDA c : c.fn = "update")

\* The next step of the history of onCompositionStart(d), one or more
\* onBeforeInput, onCompositionEnd and an end-delay timer firing, with no other
\* handler or timer in between: d, the buffer held at the start and the
\* concatenation acc of the data of the onBeforeInput calls.
ScriptAfter(name, data) ==
    CASE name = "onCompositionStart" ->
            [phase |-> "started", d |-> data, held |-> textInputData, acc |-> << >>]
      [] name = "onBeforeInput" /\ script.phase \in {"started", "input"} ->
            [script EXCEPT !.phase = "input", !.acc = script.acc \o data]
      [] name = "onCompositionEnd" /\ script.phase = "input" ->
            [script EXCEPT !.phase = "ended"]
      [] name = "endTimer" /\ script.phase = "ended" ->
            [script EXCEPT !.phase = "fired"]
      [] OTHER -> NoScript

\* The next step of the history of a run of compositionend events and the timer
\* firings that follow it with no other event in between; cs are the host calls
\* of a firing.
EndRunAfter(name, cs) ==
    CASE name = "onCompositionEnd" /\ endRun.fired = 0 ->
            [ends |-> endRun.ends + 1, fired |-> 0, updates |-> 0]
      [] name = "onCompositionEnd" -> [ends |-> 1, fired |-> 0, updates |-> 0]
      [] name = "endTimer" /\ endRun.ends > 0 ->
            [ends |-> endRun.ends, fired |-> endRun.fired + 1,
             updates |-> endRun.updates + Len(Updates(cs))]
      [] OTHER -> NoEndRun

\* ------------------------------------------------------------ the handlers

Init ==
    /\ isAndroid \in BOOLEAN
    /\ resolved = FALSE
    /\ stillComposing = FALSE
    /\ textInputData = << >>
    /\ formerTextInputData = << >>
    /\ setTimeoutId = "undefined"
    /\ timers = << >>
    /\ op = [name |-> "init", key |-> "none", ran |-> FALSE, es |-> NoEditorState,
             composedChars |-> << >>, formerComposedChars |-> << >>,
             stale |-> FALSE, nres |-> 0]
    /\ calls = << >>
    /\ script = NoScript
    /\ endRun = NoEndRun
    /\ blockMap = << >>
    /\ rekeyed = [called |-> FALSE, blockMap |-> << >>]
    /\ seenKeys = {}
    /\ focused = [called |-> FALSE]
    /\ focusCalls = << >>

\* onBeforeInput that keeps e.data alone: textInputData = e.data
onBeforeInputOverwrites(data) ==
    /\ Len(textInputData) < MaxBuf
    /\ textInputData' = data
    /\ op' = Plain("onBeforeInput")
    /\ calls' = << >>
    /\ script' = ScriptAfter("onBeforeInput", data)
    /\ endRun' = EndRunAfter("onBeforeInput", << >>)
    /\ UNCHANGED <<rvars, fvars, isAndroid, resolved, stillComposing, formerTextInputData,
                   setTimeoutId, timers>>

\* textInputData = (textInputData || '') + e.data
onBeforeInput(data) ==
    /\ Len(textInputData) < MaxBuf
    /\ textInputData' = textInputData \o data
    /\ op' = Plain("onBeforeInput")
    /\ calls' = << >>
    /\ script' = ScriptAfter("onBeforeInput", data)
    /\ endRun' = EndRunAfter("onBeforeInput", << >>)
    /\ UNCHANGED <<rvars, fvars, isAndroid, resolved, stillComposing, formerTextInputData,
                   setTimeoutId, timers>>

\* formerTextInputData = e.data; stillComposing = true
onCompositionStart(data) ==
    /\ formerTextInputData' = data
    /\ stillComposing' = TRUE
    /\ timers' = markStale(timers)
    /\ op' = Plain("onCompositionStart")
    /\ calls' = << >>
    /\ script' = ScriptAfter("onCompositionStart", data)
    /\ endRun' = EndRunAfter("onCompositionStart", << >>)
    /\ UNCHANGED <<rvars, fvars, isAndroid, resolved, textInputData, setTimeoutId>>

\* updateTimers without the clearTimeout.
updateTimersKeepsPending(data) ==
    Append(notCurrent(timers), KeepAliveTimer(data))

\* The timers onCompositionUpdate leaves pending on Android: the one setTimeoutId
\* names cleared, the new one armed.
updateTimers(data) ==
    Append(notCurrent(IF setTimeoutId # "undefined" THEN clearTimeout(timers)
                      ELSE timers),
           KeepAliveTimer(data))

\* Returns at once unless on Android; there it clears the pending keep-alive
\* timer, sets resolved = false and formerTextInputData = textInputData, and arms
\* a new keep-alive timer holding e.data.
onCompositionUpdate(data) ==
    /\ IF ~isAndroid
       THEN UNCHANGED <<resolved, formerTextInputData, setTimeoutId, timers>>
       ELSE /\ Len(SelectSeq(updateTimers(data), LAMBDA t : t.kind = "keepAlive"))
                  <= MaxTimers
            /\ resolved' = FALSE
            /\ formerTextInputData' = textInputData
            /\ setTimeoutId' = "set"
            /\ timers' = updateTimers(data)
    /\ op' = Plain("onCompositionUpdate")
    /\ calls' = << >>
    /\ script' = ScriptAfter("onCompositionUpdate", data)
    /\ endRun' = EndRunAfter("onCompositionUpdate", << >>)
    /\ UNCHANGED <<rvars, fvars, isAndroid, stillComposing, textInputData>>

\* onCompositionEnd that arms no timer.
onCompositionEndArmsNoTimer ==
    /\ Cardinality(TimersOf("end")) < MaxTimers
    /\ resolved' = FALSE
    /\ stillComposing' = FALSE
    /\ op' = Plain("onCompositionEnd")
    /\ calls' = << >>
    /\ script' = ScriptAfter("onCompositionEnd", << >>)
    /\ endRun' = EndRunAfter("onCompositionEnd", << >>)
    /\ UNCHANGED <<rvars, fvars, isAndroid, textInputData, formerTextInputData, setTimeoutId,
                   timers>>

\* resolved = false; stillComposing = false; setTimeout(..., RESOLVE_DELAY)
onCompositionEnd ==
    /\ Cardinality(TimersOf("end")) < MaxTimers
    /\ resolved' = FALSE
    /\ stillComposing' = FALSE
    /\ timers' = Append(timers, EndTimer)
    /\ op' = Plain("onCompositionEnd")
    /\ calls' = << >>
    /\ script' = ScriptAfter("onCompositionEnd", << >>)
    /\ endRun' = EndRunAfter("onCompositionEnd", << >>)
    /\ UNCHANGED <<rvars, fvars, isAndroid, textInputData, formerTextInputData, setTimeoutId>>

\* The module state and the histories after a handler that called
\* resolveComposition with result r, having read buffer and former, and then
\* made the host calls after.
Resolved(name, key, r, buffer, former, es, stale, after) ==
    /\ resolved' = r.resolved
    /\ textInputData' = r.textInputData
    /\ formerTextInputData' = r.formerTextInputData
    /\ calls' = r.calls \o after
    /\ op' = Ran(name, key, r, buffer, former, es, stale)
    /\ script' = ScriptAfter(name, << >>)
    /\ endRun' = EndRunAfter(name, r.calls)

\* What a handler reads of the editor and the window, the editor being in one of
\* the states ES and the DOM selection one of DS: an editor state if it may get
\* to the body of resolveComposition, nothing otherwise; and the DOM selection
\* where resolveComposition uses it, on Android with composedChars not empty.
Reads(ES, DS, resolves, composedChars) ==
    IF ~resolves THEN {<<NoEditorState, NoEditorState>>}
    ELSE IF isAndroid /\ composedChars # << >> THEN ES \X DS
    ELSE ES \X {NoEditorState}

\* A callback that returns without calling resolveComposition.
Skipped ==
    [ran |-> FALSE, resolved |-> resolved, textInputData |-> textInputData,
     formerTextInputData |-> formerTextInputData, calls |-> << >>]

\* The callback without its test of resolved.
endTimerCallbackUnguarded(es, dom) ==
    resolveComposition(stillComposing, resolved, textInputData,
                       formerTextInputData, es, dom)

\* The callback of onCompositionEnd's timer:
\* if (!resolved) { resolveComposition(editor) }
endTimerCallback(es, dom) ==
    IF ~resolved
    THEN resolveComposition(stillComposing, resolved, textInputData,
                            formerTextInputData, es, dom)
    ELSE Skipped

\* The oldest pending timer is an end-delay timer and fires. Timers of one delay
\* fire in arming order, and a keep-alive timer (1 ms) armed before an end-delay
\* timer (20 ms) fires before it.
endTimerFires(ES, DS) ==
    /\ timers # << >>
    /\ Head(timers).kind = "end"
    /\ timers' = Tail(timers)
    /\ \E in \in Reads(ES, DS, ~stillComposing, textInputData) :
           Resolved("endTimer", "none", endTimerCallback(in[1], in[2]),
                    textInputData, formerTextInputData, in[1],
                    Head(timers).stale, << >>)
    /\ UNCHANGED <<rvars, fvars, isAndroid, stillComposing, setTimeoutId>>

\* The callback that does not append its data to textInputData.
keepAliveCallbackDropsData(data, es, dom) ==
    IF ~resolved /\ stillComposing
    THEN resolveComposition(FALSE, resolved, textInputData,
                            formerTextInputData, es, dom)
    ELSE Skipped

\* The callback without its test of resolved.
keepAliveCallbackIgnoresResolved(data, es, dom) ==
    IF stillComposing
    THEN resolveComposition(FALSE, resolved, textInputData \o data,
                            formerTextInputData, es, dom)
    ELSE Skipped

\* The callback of onCompositionUpdate's timer:
\* if (!resolved && stillComposing) { stillComposing = false;
\*   textInputData = (textInputData || '') + data; resolveComposition(editor) }
keepAliveCallback(data, es, dom) ==
    IF ~resolved /\ stillComposing
    THEN resolveComposition(FALSE, resolved, textInputData \o data,
                            formerTextInputData, es, dom)
    ELSE Skipped

\* The oldest pending keep-alive timer fires; end-delay timers armed before it
\* may still be pending.
keepAliveTimerFires(ES, DS) ==
    /\ TimersOf("keepAlive") # {}
    /\ LET i == CHOOSE j \in TimersOf("keepAlive") :
                    \A k \in TimersOf("keepAlive") : j <= k
       IN  /\ timers' = RemoveAt(timers, i)
           /\ stillComposing' = IF ~resolved /\ stillComposing THEN FALSE
                                ELSE stillComposing
           /\ \E in \in Reads(ES, DS, TRUE, textInputData \o timers[i].data) :
                  Resolved("keepAliveTimer", "none",
                           keepAliveCallback(timers[i].data, in[1], in[2]),
                           textInputData \o timers[i].data, formerTextInputData,
                           in[1], FALSE, << >>)
    /\ UNCHANGED <<rvars, fvars, isAndroid, setTimeoutId>>

\* onKeyDown that forwards the key before it resolves.
onKeyDownForwardsFirst(key, ES, DS) ==
    /\ IF ~stillComposing
       THEN \E in \in Reads(ES, DS, TRUE, textInputData) :
                LET r == resolveComposition(stillComposing, resolved, textInputData,
                                            formerTextInputData, in[1], in[2])
                IN  Resolved("onKeyDown", key,
                             [r EXCEPT !.calls = <<forwardKeyDown(key)>> \o r.calls],
                             textInputData, formerTextInputData, in[1], FALSE, << >>)
       ELSE Resolved("onKeyDown", key, Skipped, << >>, << >>, NoEditorState, FALSE,
                     IF key = "RIGHT" \/ key = "LEFT" THEN <<preventDefault>>
                     ELSE << >>)
    /\ timers' = IF ~stillComposing THEN markKeyed(timers) ELSE timers
    /\ UNCHANGED <<rvars, fvars, isAndroid, stillComposing, setTimeoutId>>

\* if (!stillComposing) { resolveComposition(editor); editor._onKeyDown(e); return }
\* if (e.which === Keys.RIGHT || e.which === Keys.LEFT) { e.preventDefault() }
onKeyDown(key, ES, DS) ==
    /\ IF ~stillComposing
       THEN \E in \in Reads(ES, DS, TRUE, textInputData) :
                Resolved("onKeyDown", key,
                         resolveComposition(stillComposing, resolved, textInputData,
                                            formerTextInputData, in[1], in[2]),
                         textInputData, formerTextInputData, in[1], FALSE,
                         <<forwardKeyDown(key)>>)
       ELSE Resolved("onKeyDown", key, Skipped, << >>, << >>, NoEditorState, FALSE,
                     IF key = "RIGHT" \/ key = "LEFT" THEN <<preventDefault>>
                     ELSE << >>)
    /\ timers' = IF ~stillComposing THEN markKeyed(timers) ELSE timers
    /\ UNCHANGED <<rvars, fvars, isAndroid, stillComposing, setTimeoutId>>

\* if (e.which === Keys.RETURN) { e.preventDefault() }
onKeyPress(key) ==
    /\ Resolved("onKeyPress", key, Skipped, << >>, << >>, NoEditorState, FALSE,
                IF key = "RETURN" THEN <<preventDefault>> ELSE << >>)
    /\ UNCHANGED <<rvars, fvars, isAndroid, stillComposing, setTimeoutId, timers>>

\* An event reaches its handler or a pending timer fires.
Next ==
    \/ \E data \in InputData : onBeforeInput(data)
    \/ \E data \in StartData : onCompositionStart(data)
    \/ \E data \in UpdateData : onCompositionUpdate(data)
    \/ onCompositionEnd
    \/ \E key \in Keys : onKeyDown(key, PlainEditorStates, DomSelections)
    \/ \E key \in Keys : onKeyPress(key)
    \/ endTimerFires(PlainEditorStates, DomSelections)
    \/ keepAliveTimerFires(PlainEditorStates, DomSelections)

Spec == Init /\ [][Next]_vars

\* --------------------------------------- resolveComposition called directly

\* The strings of InputData characters up to length n.
Strings(n) == UNION {[1..k -> {"a", "b"}] : k \in 0..n}

\* Any state of the module's variables: every combination is one the handlers
\* reach.
InitResolve ==
    /\ isAndroid \in BOOLEAN
    /\ resolved \in BOOLEAN
    /\ stillComposing \in BOOLEAN
    /\ textInputData \in Strings(MaxBuf)
    /\ formerTextInputData \in Strings(MaxBuf)
    /\ setTimeoutId = "undefined"
    /\ timers = << >>
    /\ op = [name |-> "init", key |-> "none", ran |-> FALSE, es |-> NoEditorState,
             composedChars |-> << >>, formerComposedChars |-> << >>,
             stale |-> FALSE, nres |-> 0]
    /\ calls = << >>
    /\ script = NoScript
    /\ endRun = NoEndRun
    /\ blockMap = << >>
    /\ rekeyed = [called |-> FALSE, blockMap |-> << >>]
    /\ seenKeys = {}
    /\ focused = [called |-> FALSE]
    /\ focusCalls = << >>

\* DraftEditorCompositionHandler.resolveComposition(editor), over every editor
\* state and DOM selection.
resolveCompositionCalled ==
    /\ \E es \in EditorStates, dom \in DomSelections :
           Resolved("resolveComposition", "none",
                    resolveComposition(stillComposing, resolved, textInputData,
                                       formerTextInputData, es, dom),
                    textInputData, formerTextInputData, es, FALSE, << >>)
    /\ UNCHANGED <<rvars, fvars, isAndroid, stillComposing, setTimeoutId, timers>>

NextResolve == resolveCompositionCalled

SpecResolve == InitResolve /\ [][NextResolve]_vars

\* ------------------------------------------------------------- fairness

\* One editor state and DOM selection: the caret at the end of the block.
CaretAtEnd ==
    {es \in PlainEditorStates :
        es.anchorOffset = MaxOff /\ es.focusOffset = MaxOff /\ ~es.leafStart}

\* The events and timers with one value for every input but the keys: which
\* timers are pending and what resolved and stillComposing hold does not depend
\* on the characters typed nor on the editor state.
NextLive ==
    \/ onBeforeInput(<<"a">>)
    \/ \E data \in StartData : onCompositionStart(data)
    \/ onCompositionUpdate(<<"b">>)
    \/ onCompositionEnd
    \/ \E key \in {"LEFT", "OTHER"} : onKeyDown(key, CaretAtEnd, CaretAtEnd)
    \/ onKeyPress("RETURN")
    \/ endTimerFires(CaretAtEnd, CaretAtEnd)
    \/ keepAliveTimerFires(CaretAtEnd, CaretAtEnd)

\* A pending timer fires in the end: the browser runs every setTimeout callback.
SpecLive ==
    /\ Init
    /\ [][NextLive]_vars
    /\ WF_vars(endTimerFires(CaretAtEnd, CaretAtEnd))
    /\ WF_vars(keepAliveTimerFires(CaretAtEnd, CaretAtEnd))

\* ------------------------------------------------------------- block maps

\* null (and undefined): no key.
Nil == 0

\* The keys of the blocks of a block map handed in.
BlockKeys == 1..MaxBlocks

\* The texts of blocks.
Texts == {"Hi", "Bye"}

\* An entry [key, block] of an OrderedMap; a block map is the sequence of its
\* entries in map order, no two with the same key.
Entry(k, v) == [k |-> k, v |-> v]

\* A ContentBlock record: flat, no links.
ContentBlock(key, text) == [key |-> key, text |-> text]

\* A ContentBlockNode record: parent, prevSibling and nextSibling are keys or
\* null, children is the list of the child keys.
ContentBlockNode(key, text, parent, prevSibling, nextSibling, children) ==
    [key |-> key, text |-> text, parent |-> parent, prevSibling |-> prevSibling,
     nextSibling |-> nextSibling, children |-> children]

\* block instanceof ContentBlockNode
isContentBlockNode(block) == "children" \in DOMAIN block

\* The elements of a set of numbers as an increasing sequence.
RECURSIVE Ascending(_)
Ascending(S) ==
    IF S = {} THEN << >>
    ELSE LET least == CHOOSE x \in S : \A y \in S : x <= y
         IN  <<least>> \o Ascending(S \ {least})

\* Block i and the blocks above it in the forest par, which gives each block's
\* parent or Nil.
RECURSIVE AncestorsOrSelf(_, _)
AncestorsOrSelf(par, i) ==
    IF i = Nil THEN {} ELSE {i} \cup AncestorsOrSelf(par, par[i])

\* The forests of n blocks numbered in document order: a block's parent comes
\* before it, and is the block before it or one above that.
Forests(n) ==
    {par \in [1..n -> 0..(n - 1)] :
        \A i \in 1..n : par[i] = Nil \/ par[i] \in AncestorsOrSelf(par, i - 1)}

\* The siblings of block i in the forest par on n blocks; the roots are each
\* other's siblings.
Siblings(par, n, i) == {j \in 1..n : j # i /\ par[j] = par[i]}

\* The ContentBlockNode of block i of the forest par on n blocks, its key i.
TreeBlock(par, n, i) ==
    LET before == {j \in Siblings(par, n, i) : j < i}
        after == {j \in Siblings(par, n, i) : j > i}
    IN  ContentBlockNode(
            i, "Hi", par[i],
            IF before = {} THEN Nil ELSE CHOOSE j \in before : \A k \in before : k <= j,
            IF after = {} THEN Nil ELSE CHOOSE j \in after : \A k \in after : j <= k,
            Ascending({j \in 1..n : par[j] = i}))

\* The tree-structured block map of the forest par on n blocks, in document
\* order.
TreeMap(par, n) == [i \in 1..n |-> Entry(i, TreeBlock(par, n, i))]

\* The tree-structured block maps handed in: whole maps and their fragments,
\* which keep some of the blocks, in order, with the links they had.
TreeBlockMaps ==
    UNION {{SelectSeq(TreeMap(par, n), LAMBDA e : e.k \in keep) :
                par \in Forests(n), keep \in (SUBSET (1..n)) \ {{}}} :
           n \in 1..MaxBlocks}

\* The flat block maps handed in, the empty one among them.
FlatBlockMaps ==
    UNION {{[i \in 1..n |-> Entry(ks[i], ContentBlock(ks[i], ts[i]))] :
                ks \in {f \in [1..n -> BlockKeys] :
                           \A i, j \in 1..n : f[i] = f[j] => i = j},
                ts \in [1..n -> Texts]} :
           n \in 0..(MaxBlocks - 1)}

\* ----------------------------------------------- Immutable's maps and lists

\* blockMapState.get(key) is not undefined
has(m, key) == \E i \in 1..Len(m) : m[i].k = key

\* blockMapState.get(key), for a key of the map
get(m, key) == m[CHOOSE i \in 1..Len(m) : m[i].k = key].v

\* blockMapState.setIn([key, field], value), for a key of the map
setIn(m, key, field, value) ==
    [m EXCEPT ![CHOOSE i \in 1..Len(m) : m[i].k = key].v[field] = value]

\* list.indexOf(x): the 0-based index of the first x, -1 if there is none.
indexOf(list, x) ==
    IF \E i \in 1..Len(list) : list[i] = x
    THEN (CHOOSE i \in 1..Len(list) :
              list[i] = x /\ \A j \in 1..(i - 1) : list[j] # x) - 1
    ELSE -1

\* list.set(index, value), for an index below the size; a negative index counts
\* from the end.
listSet(list, index, value) ==
    LET at == IF index < 0 THEN Len(list) + index + 1 ELSE index + 1
    IN  IF at \in 1..Len(list) THEN [list EXCEPT ![at] = value] ELSE <<value>> \o list

\* list.filter(child => child !== childKey)
filter(list, childKey) == SelectSeq(list, LAMBDA child : child # childKey)

\* ------------------------------------------------------- generateRandomKey

\* generateRandomKey(): a key that is not among seenKeys. Which one does not
\* matter to the block map's shape; it is the least.
generateRandomKey(seen) ==
    CHOOSE key \in 1..(Cardinality(seen) + 1) :
        key \notin seen /\ \A k \in 1..(key - 1) : k \in seen

\* ------------------------------------------- randomizeContentBlockNodeKeys

\* if (nextKey): the next sibling's prevSibling becomes key, or with the next
\* sibling not in the map, the block's own nextSibling becomes null.
linkNextSibling(m, block, key) ==
    IF block.nextSibling = Nil THEN m
    ELSE IF has(m, block.nextSibling)
         THEN setIn(m, block.nextSibling, "prevSibling", key)
         ELSE setIn(m, block.key, "nextSibling", Nil)

\* if (prevKey): the same for the previous sibling.
linkPrevSibling(m, block, key) ==
    IF block.prevSibling = Nil THEN m
    ELSE IF has(m, block.prevSibling)
         THEN setIn(m, block.prevSibling, "nextSibling", key)
         ELSE setIn(m, block.key, "prevSibling", Nil)

\* parentKey && blockMapState.get(parentKey)
hasParent(m, block) == block.parent # Nil /\ has(m, block.parent)

\* With its parent in the map, the block's key in the parent's child list is
\* replaced by key. Otherwise the block becomes a root: its parent null, and
\* chained behind the root before it, if any.
linkParent(m, block, key, newKeysRef, lastRootBlock) ==
    IF hasParent(m, block)
    THEN LET parentChildrenList == get(m, block.parent).children
         IN  setIn(m, block.parent, "children",
                   listSet(parentChildrenList,
                           indexOf(parentChildrenList, block.key), key))
    ELSE LET root == setIn(m, block.key, "parent", Nil)
         IN  IF lastRootBlock # Nil
             THEN setIn(setIn(root, lastRootBlock, "nextSibling", key),
                        block.key, "prevSibling", newKeysRef[lastRootBlock])
             ELSE root

\* childrenKeys.forEach, from the i-th child key on: a child in the map gets key
\* as its parent; for a child not in the map, the block's child list becomes
\* block.getChildKeys() without that child, block being the block as it was
\* handed in.
RECURSIVE linkChildren(_, _, _, _)
linkChildren(m, block, key, i) ==
    IF i > Len(block.children) THEN m
    ELSE LET childKey == block.children[i]
         IN  linkChildren(
                 IF has(m, childKey)
                 THEN setIn(m, childKey, "parent", key)
                 ELSE setIn(m, block.key, "children", filter(block.children, childKey)),
                 block, key, i + 1)

\* newKeysRef[oldKey] = key
remember(newKeysRef, oldKey, key) == (oldKey :> key) @@ newKeysRef

\* The body of blockMapState.forEach for one block. forEach hands in the blocks as
\* they were in blockMap; blockMapState holds the changes made so far.
visit(st, block) ==
    LET key == generateRandomKey(st.seenKeys)
        newKeysRef == remember(st.newKeysRef, block.key, key)
        siblings == linkPrevSibling(linkNextSibling(st.blockMapState, block, key),
                                    block, key)
        parent == linkParent(siblings, block, key, newKeysRef, st.lastRootBlock)
    IN  [blockMapState |-> linkChildren(parent, block, key, 1),
         newKeysRef |-> newKeysRef,
         lastRootBlock |-> IF hasParent(siblings, block) THEN st.lastRootBlock
                           ELSE block.key,
         seenKeys |-> st.seenKeys \cup {key}]

\* blockMapState.forEach(...), from the i-th block on.
RECURSIVE forEach(_, _, _)
forEach(m, st, i) ==
    IF i > Len(m) THEN st ELSE forEach(m, visit(st, m[i].v), i + 1)

\* randomizeContentBlockNodeKeys(blockMap): the block map it returns, every
\* entry and block keyed by its new key, and the seenKeys it leaves.
randomizeContentBlockNodeKeys(m, seen) ==
    LET st == forEach(m, [blockMapState |-> m, newKeysRef |-> << >>,
                          lastRootBlock |-> Nil, seenKeys |-> seen], 1)
    IN  [blockMap |->
             [i \in 1..Len(m) |->
                 Entry(st.newKeysRef[st.blockMapState[i].v.key],
                       [st.blockMapState[i].v EXCEPT
                           !.key = st.newKeysRef[st.blockMapState[i].v.key]])],
         seenKeys |-> st.seenKeys]

\* ----------------------------------------------- randomizeContentBlockKeys

\* randomizeContentBlockKeys whose blocks keep the key they had.
RECURSIVE randomizeContentBlockKeysKeepsKey(_, _)
randomizeContentBlockKeysKeepsKey(m, seen) ==
    IF m = << >> THEN [blockMap |-> << >>, seenKeys |-> seen]
    ELSE LET key == generateRandomKey(seen)
             rest == randomizeContentBlockKeysKeepsKey(Tail(m), seen \cup {key})
         IN  [blockMap |-> <<Entry(key, Head(m).v)>> \o rest.blockMap,
              seenKeys |-> rest.seenKeys]

\* randomizeContentBlockKeys(blockMap): every block, in order, under a new key
\* and with that key as its own.
RECURSIVE randomizeContentBlockKeys(_, _)
randomizeContentBlockKeys(m, seen) ==
    IF m = << >> THEN [blockMap |-> << >>, seenKeys |-> seen]
    ELSE LET key == generateRandomKey(seen)
             rest == randomizeContentBlockKeys(Tail(m), seen \cup {key})
         IN  [blockMap |-> <<Entry(key, [Head(m).v EXCEPT !.key = key])>>
                               \o rest.blockMap,
              seenKeys |-> rest.seenKeys]

\* --------------------------------------------------- randomizeBlockMapKeys

\* blockMap.first() instanceof ContentBlockNode
isTreeBasedBlockMap(m) == m # << >> /\ isContentBlockNode(m[1].v)

\* randomizeBlockMapKeys(blockMap)
randomizeBlockMapKeys(m, seen) ==
    IF ~isTreeBasedBlockMap(m) THEN randomizeContentBlockKeys(m, seen)
    ELSE randomizeContentBlockNodeKeys(m, seen)

\* A block map is about to be rekeyed: the handlers as the module loads them,
\* any block map, and every key of a block one that generateRandomKey gave out.
InitRekey ==
    /\ isAndroid = FALSE
    /\ resolved = FALSE
    /\ stillComposing = FALSE
    /\ textInputData = << >>
    /\ formerTextInputData = << >>
    /\ setTimeoutId = "undefined"
    /\ timers = << >>
    /\ op = [name |-> "init", key |-> "none", ran |-> FALSE, es |-> NoEditorState,
             composedChars |-> << >>, formerComposedChars |-> << >>,
             stale |-> FALSE, nres |-> 0]
    /\ calls = << >>
    /\ script = NoScript
    /\ endRun = NoEndRun
    /\ blockMap \in TreeBlockMaps \cup FlatBlockMaps
    /\ rekeyed = [called |-> FALSE, blockMap |-> << >>]
    /\ seenKeys = BlockKeys
    /\ focused = [called |-> FALSE]
    /\ focusCalls = << >>

\* randomizeBlockMapKeys(blockMap) is called.
randomizeBlockMapKeysCalled ==
    /\ ~rekeyed.called
    /\ LET r == randomizeBlockMapKeys(blockMap, seenKeys)
       IN  /\ rekeyed' = [called |-> TRUE, blockMap |-> r.blockMap]
           /\ seenKeys' = r.seenKeys
    /\ UNCHANGED <<cvars, fvars, blockMap>>

NextRekey == randomizeBlockMapKeysCalled

SpecRekey == InitRekey /\ [][NextRekey]_vars

\* -------------------------------------------------------------- editOnFocus

\* The keys of the blocks a selection's ends are in.
SelectionKeys == {"a", "b"}

\* editorState.getSelection(): a SelectionState record.
Selections ==
    [anchorKey : SelectionKeys, anchorOffset : 0..MaxOff,
     focusKey : SelectionKeys, focusOffset : 0..MaxOff,
     isBackward : BOOLEAN, hasFocus : BOOLEAN]

\* The focus events.
FocusEvents == {"focus", "focusin"}

\* editor.props.onFocus(e)
onFocus(e) == [fn |-> "onFocus", e |-> e]

\* editor.update(EditorState.forceSelection(editorState, selection)): the update
\* of the editor state with the selection force-applied.
updateForceSelection(selection) ==
    [fn |-> "update", selection |-> selection, forceSelection |-> TRUE]

\* editOnFocus that updates before it calls editor.props.onFocus.
editOnFocusUpdatesFirst(currentSelection, hasOnFocus, e) ==
    IF currentSelection.hasFocus THEN << >>
    ELSE LET selection == [currentSelection EXCEPT !.hasFocus = TRUE]
         IN  <<updateForceSelection(selection)>>
                 \o (IF hasOnFocus THEN <<onFocus(e)>> ELSE << >>)

\* editOnFocus(editor, e), the editor's selection being currentSelection and
\* editor.props.onFocus being set or not: the calls it makes.
editOnFocus(currentSelection, hasOnFocus, e) ==
    IF currentSelection.hasFocus THEN << >>
    ELSE LET selection == [currentSelection EXCEPT !.hasFocus = TRUE]
         IN  (IF hasOnFocus THEN <<onFocus(e)>> ELSE << >>)
                 \o <<updateForceSelection(selection)>>

\* No focus event yet.
InitFocus ==
    /\ isAndroid = FALSE
    /\ resolved = FALSE
    /\ stillComposing = FALSE
    /\ textInputData = << >>
    /\ formerTextInputData = << >>
    /\ setTimeoutId = "undefined"
    /\ timers = << >>
    /\ op = [name |-> "init", key |-> "none", ran |-> FALSE, es |-> NoEditorState,
             composedChars |-> << >>, formerComposedChars |-> << >>,
             stale |-> FALSE, nres |-> 0]
    /\ calls = << >>
    /\ script = NoScript
    /\ endRun = NoEndRun
    /\ blockMap = << >>
    /\ rekeyed = [called |-> FALSE, blockMap |-> << >>]
    /\ seenKeys = {}
    /\ focused = [called |-> FALSE]
    /\ focusCalls = << >>

\* A focus event reaches editOnFocus, the editor in any selection state.
editOnFocusCalled ==
    /\ \E currentSelection \in Selections, hasOnFocus \in BOOLEAN, e \in FocusEvents :
           /\ focused' = [called |-> TRUE, e |-> e, hasOnFocus |-> hasOnFocus,
                          currentSelection |-> currentSelection]
           /\ focusCalls' = editOnFocus(currentSelection, hasOnFocus, e)
    /\ UNCHANGED <<cvars, rvars>>

NextFocus == editOnFocusCalled

SpecFocus == InitFocus /\ [][NextFocus]_vars

\* ---------------------------------------------------------------- claims

\* C1 as stated: when resolveComposition runs twice with no composition, input or
\* key event in between, the second run makes no update call.
C1_SecondRunMakesNoUpdate ==
    op.nres = 2 => Updates(calls) = << >>

\* C1 as amended: when resolveComposition runs twice with no composition, input
\* or key event in between, the second run reads an empty buffer and inserts
\* nothing: it restores the DOM, exits the mode and makes the one reset update,
\* which leaves the text and the selection as they are.
C1_SecondRunOnlyResets ==
    op.nres = 2 =>
        /\ op.composedChars = << >>
        /\ SelectSeq(calls, LAMBDA c : c.fn # "_onKeyDown")
             = <<restoreEditorDOM, exitCurrentMode,
                         [fn |-> "update", changeType |-> "none",
                          text |-> op.es.text,
                          selection |-> [anchorOffset |-> op.es.anchorOffset,
                                         focusOffset |-> op.es.focusOffset],
                          forceSelection |-> TRUE]>>

\* A second resolution in a row has run, after the first or a later one.
C1_Witness ==
    op.nres = 2 /\ op.name = "onKeyDown" /\ Len(Updates(calls)) = 1

\* C2 as stated: an end-delay timer that a compositionstart followed makes no
\* host call when it fires and leaves the input buffer alone, whatever other
\* events came before it fired.
C2_StaleTimerAppliesNoEdit ==
    (op.name = "endTimer" /\ op.stale) => (calls = << >> /\ ~op.ran)

\* C3 as stated: after onCompositionStart(d), one or more onBeforeInput,
\* onCompositionEnd and the timer firing, the host got exactly one update,
\* tagged insert-characters, which inserts the concatenation of the onBeforeInput
\* data at the selection the editor state held.
C3_ScenarioInsertsAtSelection ==
    script.phase = "fired" =>
        LET es   == op.es
            from == Min(es.anchorOffset, es.focusOffset)
            to   == Max(es.anchorOffset, es.focusOffset)
        IN  /\ Len(Updates(calls)) = 1
            /\ Updates(calls)[1].changeType = "insert-characters"
            /\ Updates(calls)[1].text =
                   SubSeq(es.text, 1, from) \o script.acc
                   \o SubSeq(es.text, to + 1, Len(es.text))

\* C3 as amended: after that sequence the host got exactly one update, tagged
\* insert-characters. It inserts the whole input buffer, which is what the buffer
\* held at onCompositionStart followed by the concatenation of the onBeforeInput
\* data, at the selection the editor state held; except on Android with d not
\* empty and the selection collapsed, where the Len(d) characters before the
\* anchor (fewer at the start of the block) are removed and the buffer is
\* inserted in their place.
C3_ScenarioInsertsBuffer ==
    script.phase = "fired" =>
        LET es      == op.es
            removes == isAndroid /\ script.d # << >>
                       /\ es.anchorOffset = es.focusOffset
            from    == IF removes THEN Max(0, es.anchorOffset - Len(script.d))
                       ELSE Min(es.anchorOffset, es.focusOffset)
            to      == Max(es.anchorOffset, es.focusOffset)
        IN  /\ Len(Updates(calls)) = 1
            /\ Updates(calls)[1].changeType = "insert-characters"
            /\ Updates(calls)[1].text =
                   SubSeq(es.text, 1, from) \o script.held \o script.acc
                   \o SubSeq(es.text, to + 1, Len(es.text))

\* The sequence has run with two onBeforeInput calls and an empty buffer before.
C3_Witness ==
    /\ script.phase = "fired"
    /\ script.held = << >>
    /\ script.acc = <<"a", "b">>
    /\ Len(Updates(calls)) = 1

\* C4: for a tree-structured block map or fragment, rekeying keeps the topology
\* up to relabeling: a block's nextSibling, prevSibling and parent that name a
\* block Y of the map name new(Y) after, those that name a block outside the map
\* are null after, and its child keys are the new keys of the children in the
\* map, in the same positions, those outside the map dropped.
C4_TopologyPreserved ==
    (rekeyed.called /\ isTreeBasedBlockMap(blockMap)) =>
        \A i \in 1..Len(blockMap) :
            LET X == blockMap[i].v
                newX == rekeyed.blockMap[i].v
                new(old) ==
                    rekeyed.blockMap[CHOOSE j \in 1..Len(blockMap) :
                                         blockMap[j].k = old].v.key
                relabeled(old) == IF has(blockMap, old) THEN new(old) ELSE Nil
                present == SelectSeq(X.children, LAMBDA c : has(blockMap, c))
            IN  /\ X.nextSibling # Nil => newX.nextSibling = relabeled(X.nextSibling)
                /\ X.prevSibling # Nil => newX.prevSibling = relabeled(X.prevSibling)
                /\ X.parent # Nil => newX.parent = relabeled(X.parent)
                /\ newX.children = [c \in 1..Len(present) |-> new(present[c])]

\* C5: in the rekeyed output of a tree-structured block map or fragment, no
\* nextSibling, prevSibling, parent or child key of a block names a key that is
\* not a key of the output map.
C5_NoDanglingReference ==
    (rekeyed.called /\ isTreeBasedBlockMap(blockMap)) =>
        \A i \in 1..Len(rekeyed.blockMap) :
            LET block == rekeyed.blockMap[i].v
                inMap(key) == has(rekeyed.blockMap, key)
            IN  /\ block.nextSibling # Nil => inMap(block.nextSibling)
                /\ block.prevSibling # Nil => inMap(block.prevSibling)
                /\ block.parent # Nil => inMap(block.parent)
                /\ \A c \in 1..Len(block.children) : inMap(block.children[c])

\* C6: for a flat block map, randomizeBlockMapKeys returns as many blocks, in the
\* same order, each with its text unchanged; the resulting keys are pairwise
\* distinct, none is a key of the block map handed in, and every entry's map key
\* is its block's key.
C6_FlatRekey ==
    (rekeyed.called /\ ~isTreeBasedBlockMap(blockMap)) =>
        /\ Len(rekeyed.blockMap) = Len(blockMap)
        /\ \A i \in 1..Len(blockMap) :
               /\ rekeyed.blockMap[i].v.text = blockMap[i].v.text
               /\ rekeyed.blockMap[i].k = rekeyed.blockMap[i].v.key
               /\ ~has(blockMap, rekeyed.blockMap[i].k)
               /\ \A j \in 1..Len(blockMap) :
                      rekeyed.blockMap[i].k = rekeyed.blockMap[j].k => i = j

\* A flat block map of two blocks with different texts was rekeyed.
C6_Witness ==
    /\ rekeyed.called
    /\ Len(blockMap) = 2
    /\ ~isTreeBasedBlockMap(blockMap)
    /\ blockMap[1].v.text = "Hi"
    /\ blockMap[2].v.text = "Bye"
    /\ Len(rekeyed.blockMap) = 2

\* C7: onKeyDown with stillComposing false runs resolveComposition and ends by
\* forwarding the key once, after every other host call; with stillComposing
\* true it neither resolves nor forwards and prevents the default of LEFT and
\* RIGHT only.
C7_KeyDown ==
    op.name = "onKeyDown" =>
        IF ~stillComposing
        THEN /\ op.ran
             /\ Len(Updates(calls)) = 1
             /\ calls = SelectSeq(calls, LAMBDA c : c.fn # "_onKeyDown")
                        \o <<[fn |-> "_onKeyDown", key |-> op.key]>>
        ELSE /\ ~op.ran
             /\ calls = IF op.key \in {"LEFT", "RIGHT"}
                        THEN <<[fn |-> "preventDefault"]>> ELSE << >>

\* A keydown outside composition has inserted the buffer and forwarded the key.
C7_Witness ==
    /\ op.name = "onKeyDown"
    /\ ~stillComposing
    /\ op.composedChars # << >>
    /\ calls[Len(calls)].fn = "_onKeyDown"

\* C8: a resolution that passes the guard calls restoreEditorDOM iff nothing was
\* composed, or the selection is at a leaf start, or a style is current, or an
\* entity is at the selection; it calls exitCurrentMode exactly once either way;
\* and the order is restore, exit, update.
C8_RestoreExitUpdate ==
    op.ran =>
        LET reset == \/ op.composedChars = << >>
                     \/ op.es.leafStart
                     \/ op.es.styleSize > 0
                     \/ op.es.entityKey # NoEntity
        IN  /\ Len(Updates(calls)) = 1
            /\ SelectSeq(calls, LAMBDA c : c.fn # "_onKeyDown")
                 = (IF reset THEN <<[fn |-> "restoreEditorDOM"]>> ELSE << >>)
                   \o <<[fn |-> "exitCurrentMode"]>> \o Updates(calls)

\* A resolution whose only reason to reset is the entity at the selection.
C8_Witness ==
    /\ op.ran
    /\ op.composedChars # << >>
    /\ ~op.es.leafStart
    /\ op.es.styleSize = 0
    /\ op.es.entityKey # NoEntity
    /\ calls[1].fn = "restoreEditorDOM"

\* C9: after two or more onCompositionEnd in a row, the first timer firing
\* resolves with one update and every later firing finds resolved true and does
\* nothing.
C9_OneUpdatePerEndRun ==
    (endRun.ends >= 2 /\ endRun.fired >= 1) =>
        /\ endRun.updates = 1
        /\ endRun.fired = 1 => (op.ran /\ Len(Updates(calls)) = 1)
        /\ endRun.fired >= 2 => (resolved /\ ~op.ran /\ calls = << >>)

\* Two compositionend events in a row and both their timers have fired.
C9_Witness ==
    endRun.ends >= 2 /\ endRun.fired >= 2

\* C10: once onCompositionEnd has run, either a compositionstart follows or a
\* resolution runs in the end, which sets resolved, empties the buffer and makes
\* its update.
C10_EndLeadsToResolution ==
    (op.name = "onCompositionEnd")
        ~> (stillComposing
            \/ (op.ran /\ resolved /\ textInputData = << >>
                /\ Len(Updates(calls)) = 1))

\* The end-delay timer has resolved a composition with characters in the buffer.
C10_Witness ==
    /\ op.name = "endTimer"
    /\ op.ran
    /\ op.composedChars # << >>
    /\ resolved

\* C11: editOnFocus does nothing when the current selection has the focus flag:
\* no callback, no update. Otherwise it calls the user's onFocus, when there is
\* one, before the update, and makes exactly one update, which force-applies the
\* selection it read with hasFocus true and every other field as it was.
C11_EditOnFocus ==
    focused.called =>
        LET isUpdate(c) == c.fn = "update"
            isOnFocus(c) == c.fn = "onFocus"
        IN  IF focused.currentSelection.hasFocus THEN focusCalls = << >>
            ELSE /\ Len(SelectSeq(focusCalls, isUpdate)) = 1
                 /\ isUpdate(focusCalls[Len(focusCalls)])
                 /\ focusCalls[Len(focusCalls)].forceSelection
                 /\ focusCalls[Len(focusCalls)].selection
                        = [focused.currentSelection EXCEPT !.hasFocus = TRUE]
                 /\ Len(focusCalls) = IF focused.hasOnFocus THEN 2 ELSE 1
                 /\ focused.hasOnFocus =>
                        (isOnFocus(focusCalls[1]) /\ focusCalls[1].e = focused.e)

\* A focus event reached an editor without focus and with an onFocus callback,
\* its selection backward and across two blocks.
C11_Witness ==
    /\ focused.called
    /\ ~focused.currentSelection.hasFocus
    /\ focused.currentSelection.isBackward
    /\ focused.currentSelection.anchorKey # focused.currentSelection.focusKey
    /\ focused.hasOnFocus
    /\ Len(focusCalls) = 2

\* C12: resolveComposition called while stillComposing is true does nothing:
\* resolved, stillComposing, textInputData and formerTextInputData stay as they
\* are and no host call is made.
C12_GuardedNoOp ==
    [][(stillComposing /\ op'.name = "resolveComposition") =>
          /\ UNCHANGED <<resolved, stillComposing, textInputData,
                         formerTextInputData>>
          /\ calls' = << >>
          /\ ~op'.ran]_vars

\* resolveComposition was called while composing, unresolved, with characters in
\* the buffer and former characters.
C12_Witness ==
    /\ op.name = "resolveComposition"
    /\ stillComposing
    /\ ~resolved
    /\ textInputData # << >>
    /\ formerTextInputData # << >>

\* C13: the rekeyed output of a tree-structured block map or fragment has
\* symmetric sibling links: for output blocks X and Y, X.nextSibling is Y's key
\* if and only if Y.prevSibling is X's key.
C13_SiblingLinksSymmetric ==
    (rekeyed.called /\ isTreeBasedBlockMap(blockMap)) =>
        \A i, j \in 1..Len(rekeyed.blockMap) :
            LET X == rekeyed.blockMap[i].v
                Y == rekeyed.blockMap[j].v
            IN  X.nextSibling = Y.key <=> Y.prevSibling = X.key

\* C14: after rekeying a tree-structured block map, every block whose parent was
\* null or not in the map is a root, its parent null, and the roots are chained
\* in map order: of two roots in a row the first's nextSibling is the second's
\* key and the second's prevSibling the first's; the first root's prevSibling and
\* the last root's nextSibling are null.
C14_RootsChained ==
    (rekeyed.called /\ isTreeBasedBlockMap(blockMap)) =>
        LET roots == Ascending({i \in 1..Len(blockMap) :
                                   ~hasParent(blockMap, blockMap[i].v)})
            new(r) == rekeyed.blockMap[roots[r]].v
        IN  /\ \A r \in 1..Len(roots) : new(r).parent = Nil
            /\ \A r \in 1..(Len(roots) - 1) :
                   /\ new(r).nextSibling = new(r + 1).key
                   /\ new(r + 1).prevSibling = new(r).key
            /\ new(1).prevSibling = Nil
            /\ new(Len(roots)).nextSibling = Nil

\* C15: on Android at most one keep-alive timer is pending in every reachable
\* state, and it is the one the most recent onCompositionUpdate armed, the one
\* whose handle setTimeoutId holds.
C15_OneKeepAliveTimer ==
    /\ Cardinality(TimersOf("keepAlive")) <= 1
    /\ \A i \in TimersOf("keepAlive") :
           isAndroid /\ timers[i].current /\ setTimeoutId = "set"
    /\ (isAndroid /\ op.name = "onCompositionUpdate") =>
           (timers # << >> /\ timers[Len(timers)].kind = "keepAlive")

\* On Android onCompositionUpdate has just run with an end-delay timer pending,
\* and its keep-alive timer is pending behind it.
C15_Witness ==
    /\ isAndroid
    /\ op.name = "onCompositionUpdate"
    /\ TimersOf("end") # {}
    /\ Cardinality(TimersOf("keepAlive")) = 1

\* C16: a keep-alive timer that fires with resolved false and stillComposing true
\* appends its data to textInputData, sets stillComposing false and runs a
\* resolution of that buffer, which inserts it at the selection (behind the
\* removal of the former characters, if any). One that fires with resolved true
\* or stillComposing false changes none of resolved, stillComposing,
\* textInputData and formerTextInputData and makes no host call.
C16_KeepAliveFiring ==
    [][op'.name = "keepAliveTimer" =>
          LET i == CHOOSE j \in TimersOf("keepAlive") :
                       \A k \in TimersOf("keepAlive") : j <= k
              buffer == textInputData \o timers[i].data
              es == op'.es
              removes == formerTextInputData # << >>
                         /\ es.anchorOffset = es.focusOffset
              from == IF removes
                      THEN Max(0, es.anchorOffset - Len(formerTextInputData))
                      ELSE Min(es.anchorOffset, es.focusOffset)
              to == Max(es.anchorOffset, es.focusOffset)
          IN  IF ~resolved /\ stillComposing
              THEN /\ ~stillComposing'
                   /\ resolved'
                   /\ textInputData' = << >>
                   /\ op'.ran
                   /\ op'.composedChars = buffer
                   /\ Len(Updates(calls')) = 1
                   /\ buffer # << >> =>
                          /\ Updates(calls')[1].changeType = "insert-characters"
                          /\ Updates(calls')[1].text =
                                 SubSeq(es.text, 1, from) \o buffer
                                 \o SubSeq(es.text, to + 1, Len(es.text))
              ELSE /\ UNCHANGED <<resolved, stillComposing, textInputData,
                                  formerTextInputData>>
                   /\ calls' = << >>
                   /\ ~op'.ran]_vars

\* A keep-alive timer has fired during a composition and resolved a buffer made
\* of characters typed before and of its own data.
C16_Witness ==
    /\ op.name = "keepAliveTimer"
    /\ op.ran
    /\ Len(op.composedChars) = 2
    /\ Len(Updates(calls)) = 1

\* C17: the former characters are removed only on Android, with
\* formerComposedChars not empty and the selection collapsed. The range removed
\* then ends at the anchor offset and starts Len(formerComposedChars) before it,
\* at 0 if that is negative, and composedChars is inserted where the removal
\* left the selection. In every other case composedChars replaces the selected
\* range of the content as it was; with nothing composed the content is left as
\* it was.
C17_FormerRemoval ==
    op.ran =>
        LET es == op.es
            removes == isAndroid /\ op.formerComposedChars # << >>
                       /\ es.anchorOffset = es.focusOffset
            from == IF removes
                    THEN Max(0, es.anchorOffset - Len(op.formerComposedChars))
                    ELSE Min(es.anchorOffset, es.focusOffset)
            to == IF removes THEN es.anchorOffset
                  ELSE Max(es.anchorOffset, es.focusOffset)
        IN  /\ from >= 0
            /\ Len(Updates(calls)) = 1
            /\ Updates(calls)[1].text =
                   IF op.composedChars = << >> THEN es.text
                   ELSE SubSeq(es.text, 1, from) \o op.composedChars
                        \o SubSeq(es.text, to + 1, Len(es.text))

\* A resolution on Android has removed fewer characters than
\* formerComposedChars holds, the anchor being too close to the block's start,
\* and inserted composedChars there.
C17_Witness ==
    /\ op.ran
    /\ isAndroid
    /\ op.composedChars # << >>
    /\ op.es.anchorOffset = op.es.focusOffset
    /\ op.es.anchorOffset > 0
    /\ Len(op.formerComposedChars) > op.es.anchorOffset
    /\ Len(Updates(calls)[1].text) = Len(op.es.text) - op.es.anchorOffset
                                        + Len(op.composedChars)

\* C18: every resolveComposition that passes the stillComposing guard makes
\* exactly one update call: the push tagged insert-characters when composedChars
\* is not empty, and otherwise the reset update, which forces the selection and
\* leaves the content and the selection as they were. No resolution ends without
\* an update.
C18_ExactlyOneUpdate ==
    op.ran =>
        /\ Len(Updates(calls)) = 1
        /\ calls[Len(SelectSeq(calls, LAMBDA c : c.fn # "_onKeyDown"))].fn = "update"
        /\ IF op.composedChars # << >>
           THEN /\ Updates(calls)[1].changeType = "insert-characters"
                /\ ~Updates(calls)[1].forceSelection
           ELSE /\ Updates(calls)[1].changeType = "none"
                /\ Updates(calls)[1].forceSelection
                /\ Updates(calls)[1].text = op.es.text
                /\ Updates(calls)[1].selection =
                       [anchorOffset |-> op.es.anchorOffset,
                        focusOffset |-> op.es.focusOffset]

\* A resolution with no composed and no former characters, the selection inside
\* a leaf of plain text, has made the reset update.
C18_Witness ==
    /\ op.ran
    /\ op.composedChars = << >>
    /\ op.formerComposedChars = << >>
    /\ ~op.es.leafStart
    /\ op.es.styleSize = 0
    /\ op.es.entityKey = NoEntity
    /\ Len(Updates(calls)) = 1
    /\ Updates(calls)[1].forceSelection

\* C19: input conservation. Every step keeps the balance: the text its
\* insert-characters update inserted, if any, followed by textInputData after
\* the step, is textInputData before the step followed by the data the step
\* appended (onBeforeInput's e.data, or the data of a keep-alive timer that
\* fired with resolved false and stillComposing true). So over any sequence of
\* events and timer firings the texts inserted so far, in order, followed by the
\* buffer are the data appended so far, in order: nothing is dropped, inserted
\* twice or reordered.
C19_InputConservation ==
    [][LET pushes == SelectSeq(calls', LAMBDA c : c.fn = "update"
                                           /\ c.changeType = "insert-characters")
           es == op'.es
           removes == isAndroid /\ op'.formerComposedChars # << >>
                      /\ es.anchorOffset = es.focusOffset
           from == IF removes
                   THEN Max(0, es.anchorOffset - Len(op'.formerComposedChars))
                   ELSE Min(es.anchorOffset, es.focusOffset)
           to == Max(es.anchorOffset, es.focusOffset)
           inserted == IF pushes = << >> THEN << >>
                       ELSE SubSeq(pushes[1].text, from + 1,
                                   Len(pushes[1].text) - (Len(es.text) - to))
           keepAlive == CHOOSE j \in TimersOf("keepAlive") :
                            \A k \in TimersOf("keepAlive") : j <= k
       IN  /\ Len(pushes) <= 1
           /\ CASE op'.name = "onBeforeInput" ->
                      /\ inserted = << >>
                      /\ \E data \in InputData :
                             textInputData' = textInputData \o data
                 [] op'.name = "keepAliveTimer" /\ ~resolved /\ stillComposing ->
                      inserted \o textInputData'
                          = textInputData \o timers[keepAlive].data
                 [] OTHER -> inserted \o textInputData' = textInputData]_vars

\* A keep-alive timer has fired and inserted characters typed before it together
\* with its own data, and the buffer is empty again.
C19_Witness ==
    /\ op.name = "keepAliveTimer"
    /\ op.ran
    /\ op.composedChars = <<"a", "b">>
    /\ textInputData = << >>
    /\ Len(Updates(calls)) = 1
    /\ Updates(calls)[1].changeType = "insert-characters"

\* C20: an end-delay timer that fires after a keydown has resolved the
\* composition, the keydown having come after the onCompositionEnd that armed the
\* timer, makes no host call and changes none of resolved, stillComposing,
\* textInputData and formerTextInputData, whatever happened in between.
C20_TimerAfterKeyDownDoesNothing ==
    [][(op'.name = "endTimer" /\ Head(timers).keyed) =>
          /\ calls' = << >>
          /\ ~op'.ran
          /\ UNCHANGED <<resolved, stillComposing, textInputData,
                         formerTextInputData>>]_vars

====
